---- MODULE Spec2Model ----
(***************************************************************************)
(* Model of the obs-overlay server (src/main.rs, src/utils/language.rs):   *)
(* the /api/repo/:owner/:repo handler, the languages fetch/aggregation and *)
(* the colors.json lookup.                                                 *)
(*                                                                         *)
(* Representation choices                                                  *)
(*  - a Rust String that the code inspects character by character (the     *)
(*    color text) is a sequence of one-character strings; opaque strings   *)
(*    (names, logins, urls, messages) are TLA+ strings;                    *)
(*  - a file or a response body is either syntactically invalid JSON or a  *)
(*    JSON value; parsing is modelled by what serde_json accepts;          *)
(*  - u64 is scaled to U64Bits bits, with the same wrap/panic behaviour;   *)
(*  - f64 is a fixed-point grid of FracUnits steps per unit, division      *)
(*    rounds to the nearest grid point (ties to even), plus NaN and inf;   *)
(*  - a panic is an explicit outcome, never a silent stop.                 *)
(***************************************************************************)
EXTENDS Integers, Sequences, FiniteSets, TLC

(***************************************************************************)
(* Bounds                                                                  *)
(***************************************************************************)
NumReqs == 2
U64Bits == 3
FracUnits == 1000
MaxColorLen == 1
MaxCount == 1
MaxCalls == 2

Pow2(n) == 2 ^ n
U64Modulus == Pow2(U64Bits)
U64 == 0 .. (U64Modulus - 1)

(***************************************************************************)
(* Option<T>                                                               *)
(***************************************************************************)
None == [some |-> FALSE]
Some(v) == [some |-> TRUE, val |-> v]

(***************************************************************************)
(* Characters and strings that the code inspects                          *)
(***************************************************************************)
Quote == "\""
Backslash == "\\"
ColorChars == {"f", Quote}

RECURSIVE SeqsUpTo(_, _)
SeqsUpTo(S, n) ==
  IF n = 0 THEN {<<>>}
  ELSE LET shorter == SeqsUpTo(S, n - 1)
       IN  shorter \cup {Append(s, c) : s \in shorter, c \in S}

RECURSIVE Digits(_)
Digits(n) ==
  LET d == <<"0", "1", "2", "3", "4", "5", "6", "7", "8", "9">>
  IN  IF n < 10 THEN <<d[n + 1]>> ELSE Digits(n \div 10) \o <<d[(n % 10) + 1]>>

(***************************************************************************)
(* JSON values (serde_json::Value)                                         *)
(***************************************************************************)
JNull == [t |-> "null"]
JStr(s) == [t |-> "string", s |-> s]
JNum(n) == [t |-> "number", n |-> n]
JObj(m) == [t |-> "object", m |-> m]

\* The text of a file or body: not JSON at all, or the text of a JSON value.
BadText == [syntax |-> "invalid"]
TextOf(v) == [syntax |-> "valid", value |-> v]

\* serde_json::from_str::<Value>
Ok(v) == [ok |-> TRUE, val |-> v]
Err(e) == [ok |-> FALSE, err |-> e]
from_str(text) ==
  IF text.syntax = "valid" THEN Ok(text.value) ELSE Err("expected value")

\* Value::get(&str): Some only on an object that has the key.
ValueGet(v, key) ==
  IF v.t = "object" /\ key \in DOMAIN v.m THEN Some(v.m[key]) ELSE None

\* JSON string escaping done by Value's Display.
RECURSIVE Escape(_)
Escape(s) ==
  IF s = <<>> THEN <<>>
  ELSE (IF Head(s) \in {Quote, Backslash} THEN <<Backslash, Head(s)>> ELSE <<Head(s)>>)
       \o Escape(Tail(s))

\* Value::to_string(): the compact JSON text of a scalar value.
to_string(v) ==
  CASE v.t = "string" -> <<Quote>> \o Escape(v.s) \o <<Quote>>
    [] v.t = "number" -> Digits(v.n)
    [] v.t = "null"   -> <<"n", "u", "l", "l">>
    [] v.t = "object" -> <<"{", "}">>

\* str::trim_matches(c): strips every leading and trailing c.
RECURSIVE TrimStart(_, _)
TrimStart(s, c) ==
  IF s # <<>> /\ Head(s) = c THEN TrimStart(Tail(s), c) ELSE s
RECURSIVE TrimEnd(_, _)
TrimEnd(s, c) ==
  IF s # <<>> /\ s[Len(s)] = c THEN TrimEnd(SubSeq(s, 1, Len(s) - 1), c) ELSE s
trim_matches(s, c) == TrimEnd(TrimStart(s, c), c)

(***************************************************************************)
(* Outcomes of a call: it returns a value or it panics                     *)
(***************************************************************************)
Panic(why) == [panic |-> TRUE, why |-> why]
Return(v) == [panic |-> FALSE, ret |-> v]

(***************************************************************************)
(* utils/language.rs                                                       *)
(***************************************************************************)
\* The colors.json file: missing/unreadable, or readable with some text.
Unreadable == [readable |-> FALSE]
FileWith(text) == [readable |-> TRUE, text |-> text]

\* fs::read_to_string(..).expect(..)
ReadColorsFile(file) ==
  IF file.readable THEN Return(file.text) ELSE Panic("Failed to read colors.json")

\* Mutant: an absent name yields the text of JSON null.
get_language_color_AbsentNull(file, language) ==
  LET read == ReadColorsFile(file)
  IN  IF read.panic THEN read
      ELSE LET colors == from_str(read.ret)
           IN  IF colors.ok
               THEN LET color == ValueGet(colors.val, language)
                    IN  IF color.some THEN Return(to_string(color.val))
                        ELSE Return(to_string(JNull))
               ELSE Return(to_string(JStr(<<>>)))

get_language_color(file, language) ==
  LET read == ReadColorsFile(file)
  IN  IF read.panic THEN read
      ELSE LET colors == from_str(read.ret)
           IN  IF colors.ok
               THEN LET color == ValueGet(colors.val, language)
                    IN  IF color.some THEN Return(to_string(color.val))
                        ELSE Return(to_string(JStr(<<>>)))
               ELSE Return(to_string(JStr(<<>>)))

\* f64
Finite(units) == [cls |-> "finite", units |-> units]
NaN == [cls |-> "nan"]
Inf == [cls |-> "inf"]

\* n / d rounded to the nearest integer, ties to even (n >= 0, d > 0).
RoundDiv(n, d) ==
  LET q == n \div d
      r == n % d
  IN  IF 2 * r < d THEN q
      ELSE IF 2 * r > d THEN q + 1
      ELSE IF q % 2 = 0 THEN q ELSE q + 1

\* `x as f64` for a u64 (exact: every modelled u64 is far below 2^53).
U64ToF64(n) == Finite(n * FracUnits)

F64Div(a, b) ==
  IF a.cls = "nan" \/ b.cls = "nan" THEN NaN
  ELSE IF a.cls = "inf" THEN (IF b.cls = "inf" THEN NaN ELSE Inf)
  ELSE IF b.cls = "inf" THEN Finite(0)
  ELSE IF b.units = 0 THEN (IF a.units = 0 THEN NaN ELSE Inf)
  ELSE Finite(RoundDiv(a.units * FracUnits, b.units))

F64Mul(a, b) ==
  IF a.cls = "nan" \/ b.cls = "nan" THEN NaN
  ELSE IF a.cls = "inf" \/ b.cls = "inf"
       THEN (IF (a.cls = "finite" /\ a.units = 0) \/ (b.cls = "finite" /\ b.units = 0)
             THEN NaN ELSE Inf)
  ELSE Finite(RoundDiv(a.units * b.units, FracUnits))

\* The literal 100.0
Hundred == Finite(100 * FracUnits)

get_language_size(language, total) ==
  F64Mul(F64Div(U64ToF64(language), U64ToF64(total)), Hundred)

(***************************************************************************)
(* main.rs: get_repository_languages                                       *)
(***************************************************************************)
INTERNAL_SERVER_ERROR == 500
HttpError(code, message) == [code |-> code, message |-> message]

\* serde_json::from_str::<HashMap<String, u64>>: the text must be a JSON
\* object whose every value is an integer in the range of u64.
IsU64(v) == v.t = "number" /\ v.n \in U64
ParseLanguages(text) ==
  IF text.syntax # "valid" THEN Err("expected value")
  ELSE IF text.value.t # "object" THEN Err("invalid type: expected a map")
  ELSE IF \E k \in DOMAIN text.value.m : ~IsU64(text.value.m[k])
       THEN Err("invalid type or value: expected u64")
  ELSE Ok([k \in DOMAIN text.value.m |-> text.value.m[k].n])

RECURSIVE SumOver(_, _)
SumOver(m, keys) ==
  IF keys = {} THEN 0
  ELSE LET k == CHOOSE x \in keys : TRUE
       IN  m[k] + SumOver(m, keys \ {k})

\* values().sum::<u64>(): an overflowing sum panics when overflow checks are
\* compiled in (debug) and wraps otherwise (release).
SumU64(m, build) ==
  LET exact == SumOver(m, DOMAIN m)
  IN  IF exact < U64Modulus THEN Return(exact)
      ELSE IF build = "debug" THEN Panic("attempt to add with overflow")
      ELSE Return(exact % U64Modulus)

Language(name, size, color) == [name |-> name, size |-> size, color |-> color]

\* The for loop over the map, in the iteration order `order`.
RECURSIVE PushLanguages(_, _, _, _, _)
PushLanguages(languages, m, order, total, file) ==
  IF order = <<>> THEN Return(languages)
  ELSE LET name == Head(order)
           size == get_language_size(m[name], total)
           looked == get_language_color(file, name)
       IN  IF looked.panic THEN looked
           ELSE PushLanguages(
                  Append(languages, Language(name, size, trim_matches(looked.ret, Quote))),
                  m, Tail(order), total, file)

\* Lines 114-127: parse the body text, total, build the Vec<Language>.
LanguagesFromText(text, order, file, build) ==
  LET parsed == ParseLanguages(text)
  IN  IF ~parsed.ok THEN Return(Err(HttpError(INTERNAL_SERVER_ERROR, parsed.err)))
      ELSE LET total == SumU64(parsed.val, build)
           IN  IF total.panic THEN total
               ELSE LET pushed == PushLanguages(<<>>, parsed.val, order, total.ret, file)
                    IN  IF pushed.panic THEN pushed ELSE Return(Ok(pushed.ret))

\* The iteration orders a HashMap with these keys can have.
Orders(keys) ==
  {o \in [1 .. Cardinality(keys) -> keys] : \A i, j \in DOMAIN o : i # j => o[i] # o[j]}

(***************************************************************************)
(* main.rs: get_repository, view assembly and rendering                    *)
(***************************************************************************)
\* Mutant: the watchers count is taken from the stargazers field.
RepoTemplate_WatchersFromStars(repo, languages) ==
  [name              |-> repo.name,
   owner             |-> IF repo.owner.some THEN repo.owner.val.login ELSE "unknown",
   html_url          |-> IF repo.html_url.some THEN repo.html_url.val ELSE "/",
   avatar_url        |-> IF repo.owner.some THEN repo.owner.val.avatar_url ELSE "/",
   open_issues_count |-> IF repo.open_issues_count.some THEN repo.open_issues_count.val ELSE 0,
   stargazers_count  |-> IF repo.stargazers_count.some THEN repo.stargazers_count.val ELSE 0,
   watchers_count    |-> IF repo.stargazers_count.some THEN repo.stargazers_count.val ELSE 0,
   forks_count       |-> IF repo.forks_count.some THEN repo.forks_count.val ELSE 0,
   languages         |-> languages]

RepoTemplate(repo, languages) ==
  [name              |-> repo.name,
   owner             |-> IF repo.owner.some THEN repo.owner.val.login ELSE "unknown",
   html_url          |-> IF repo.html_url.some THEN repo.html_url.val ELSE "/",
   avatar_url        |-> IF repo.owner.some THEN repo.owner.val.avatar_url ELSE "/",
   open_issues_count |-> IF repo.open_issues_count.some THEN repo.open_issues_count.val ELSE 0,
   stargazers_count  |-> IF repo.stargazers_count.some THEN repo.stargazers_count.val ELSE 0,
   watchers_count    |-> IF repo.watchers_count.some THEN repo.watchers_count.val ELSE 0,
   forks_count       |-> IF repo.forks_count.some THEN repo.forks_count.val ELSE 0,
   languages         |-> languages]

\* Responses as the client sees them.
NoResponse == [kind |-> "none"]
ErrorResponse(e) == [kind |-> "error", status |-> e.code, message |-> e.message]
PageResponse(template) == [kind |-> "page", status |-> 200, view |-> template]

\* HtmlTemplate::into_response
HtmlTemplateResponse(template, rendered) ==
  IF rendered THEN PageResponse(template)
  ELSE ErrorResponse(HttpError(INTERNAL_SERVER_ERROR, "Failed to render template. Error: fmt error"))


(***************************************************************************)
(* Input domains                                                           *)
(***************************************************************************)
LangNames == {"Go", "Rust"}
UnknownName == "__unknown_language__"
Names == LangNames \cup {UnknownName}
Builds == {"debug", "release"}

\* Functions from some subset of keys to vals.
PartialMaps(keys, vals) == UNION {[d -> vals] : d \in SUBSET keys}

\* colors.json
ColorValues ==
  {JStr(s) : s \in SeqsUpTo(ColorChars, MaxColorLen)} \cup {JNum(1), JNull}
ColorFiles ==
  {Unreadable, FileWith(BadText), FileWith(TextOf(JNull))}
    \cup {FileWith(TextOf(JObj(m))) : m \in PartialMaps(LangNames, ColorValues)}

\* Bodies of the languages response.
BodyValues == {JNum(n) : n \in (-1) .. U64Modulus} \cup {JStr(<<>>)}
BodyTexts ==
  {BadText, TextOf(JNull)}
    \cup {TextOf(JObj(m)) : m \in PartialMaps(LangNames, BodyValues)}

\* octocrab::models::Repository, the fields the handler reads.
Counts == {None} \cup {Some(n) : n \in 0 .. MaxCount}
Owners == {None, Some([login |-> "alice", avatar_url |-> "https://avatars/alice"])}
Repositories ==
  [name              : {"demo"},
   owner             : Owners,
   html_url          : {None, Some("https://github.com/alice/demo")},
   languages_url     : {None, Some("https://api.github.com/repos/alice/demo/languages")},
   open_issues_count : Counts,
   stargazers_count  : Counts,
   watchers_count    : Counts,
   forks_count       : Counts]

\* What the concurrent server is driven with: the boundary cases of the
\* domains above.
Paths == {<<"alice", "demo">>}
Statuses == {200, 404}
SrvFiles ==
  {f \in ColorFiles :
     f.readable => /\ f.text.syntax = "valid"
                   /\ f.text.value.t = "object"
                   /\ DOMAIN f.text.value.m = {"Rust"}
                   /\ f.text.value.m["Rust"] = JStr(<<"f">>)}
SrvRepositories ==
  {repo \in Repositories :
     /\ repo.html_url.some = repo.owner.some
     /\ ~repo.languages_url.some => ~repo.owner.some
     /\ \A c \in {repo.open_issues_count, repo.stargazers_count,
                  repo.watchers_count, repo.forks_count} :
          c = IF repo.owner.some THEN Some(MaxCount) ELSE None}
SrvTexts ==
  {t \in BodyTexts :
     t.syntax = "valid" /\ t.value.t = "object"
       => LET m == t.value.m
          IN  /\ \A k \in DOMAIN m : m[k] \in {JNum(-1), JNum(0), JNum(U64Modulus - 1)}
              /\ "Rust" \in DOMAIN m
                   => "Go" \in DOMAIN m /\ m["Go"] # JNum(-1) /\ m["Rust"] # JNum(0)}

(***************************************************************************)
(* State                                                                   *)
(***************************************************************************)
VARIABLES
  colors,     \* the colors.json file
  build,      \* the build profile of the binary
  pc,         \* where each request's handler future is
  path,       \* Path((owner, repo)) of each request
  repoReply,  \* what the repository lookup returned, once it has
  sendReply,  \* what send() of the languages GET returned, once it has
  textReply,  \* what text() of the languages response returned, once it has
  resp,       \* the response the client got
  log,        \* the operations each request has performed, in order
  fnIn,       \* arguments of the function under test (function runs only)
  fnOut       \* outcomes of its successive calls (function runs only)

srvVars == <<pc, path, repoReply, sendReply, textReply, resp, log>>
fnVars == <<fnIn, fnOut>>
vars == <<colors, build, pc, path, repoReply, sendReply, textReply, resp, log, fnIn, fnOut>>

Reqs == 1 .. NumReqs

SrvIdle ==
  /\ pc = [r \in Reqs |-> "idle"]
  /\ path = [r \in Reqs |-> <<>>]
  /\ repoReply = [r \in Reqs |-> None]
  /\ sendReply = [r \in Reqs |-> None]
  /\ textReply = [r \in Reqs |-> None]
  /\ resp = [r \in Reqs |-> NoResponse]
  /\ log = [r \in Reqs |-> <<>>]

Init ==
  /\ colors \in SrvFiles
  /\ build \in Builds
  /\ SrvIdle
  /\ fnIn = [fn |-> "none"]
  /\ fnOut = <<>>

(***************************************************************************)
(* The handler of /api/repo/:owner/:repo, one action per await point       *)
(***************************************************************************)
Record(r, events) == log' = [log EXCEPT ![r] = @ \o events]
Respond(r, response) ==
  /\ resp' = [resp EXCEPT ![r] = response]
  /\ pc' = [pc EXCEPT ![r] = "done"]
Fail(r, message) == Respond(r, ErrorResponse(HttpError(INTERNAL_SERVER_ERROR, message)))
Abort(r) ==
  /\ pc' = [pc EXCEPT ![r] = "panicked"]
  /\ UNCHANGED resp

\* Mutant: the lookup is a blocking call, a request waits for it while any
\* other request is suspended on its upstream.
Arrive_Serialized(r) ==
  /\ pc[r] = "idle"
  /\ \A q \in Reqs \ {r} : pc[q] \notin {"await_repo", "await_send", "await_text"}
  /\ \E p \in Paths : path' = [path EXCEPT ![r] = p]
  /\ pc' = [pc EXCEPT ![r] = "await_repo"]
  /\ Record(r, <<"lookup">>)
  /\ UNCHANGED <<colors, build, repoReply, sendReply, textReply, resp, fnVars>>

\* The request arrives and the repository lookup is sent (lines 130-136).
Arrive(r) ==
  /\ pc[r] = "idle"
  /\ \E p \in Paths : path' = [path EXCEPT ![r] = p]
  /\ pc' = [pc EXCEPT ![r] = "await_repo"]
  /\ Record(r, <<"lookup">>)
  /\ UNCHANGED <<colors, build, repoReply, sendReply, textReply, resp, fnVars>>

\* The lookup returns; on success the languages GET is sent (lines 136-141, 94-98).
RepoReplies == {Err("GitHub: Not Found")} \cup {Ok(repo) : repo \in SrvRepositories}
\* Mutant: a failed lookup is retried once before the error is returned.
RepoReply_Retry(r) ==
  /\ pc[r] = "await_repo"
  /\ \E reply \in RepoReplies :
       /\ repoReply' = [repoReply EXCEPT ![r] = Some(reply)]
       /\ IF ~reply.ok /\ Len(log[r]) < 2
          THEN /\ Record(r, <<"lookup_err", "lookup">>)
               /\ UNCHANGED <<pc, resp>>
          ELSE IF ~reply.ok
          THEN Fail(r, reply.err) /\ Record(r, <<"lookup_err", "respond">>)
          ELSE IF ~reply.val.languages_url.some
          THEN Abort(r) /\ Record(r, <<"lookup_ok", "panic">>)
          ELSE /\ pc' = [pc EXCEPT ![r] = "await_send"]
               /\ Record(r, <<"lookup_ok", "get">>)
               /\ UNCHANGED resp
  /\ UNCHANGED <<colors, build, path, sendReply, textReply, fnVars>>

RepoReply(r) ==
  /\ pc[r] = "await_repo"
  /\ \E reply \in RepoReplies :
       /\ repoReply' = [repoReply EXCEPT ![r] = Some(reply)]
       /\ IF ~reply.ok
          THEN Fail(r, reply.err) /\ Record(r, <<"lookup_err", "respond">>)
          ELSE IF ~reply.val.languages_url.some
          THEN Abort(r) /\ Record(r, <<"lookup_ok", "panic">>)
          ELSE /\ pc' = [pc EXCEPT ![r] = "await_send"]
               /\ Record(r, <<"lookup_ok", "get">>)
               /\ UNCHANGED resp
  /\ UNCHANGED <<colors, build, path, sendReply, textReply, fnVars>>

\* send() returns: transport error, or a response whose status is checked
\* (lines 98-112).
\* Mutant: only server errors count as failures.
is_success_Below500(status) == 200 <= status /\ status < 500
is_success(status) == 200 <= status /\ status < 300
StatusMessage(status) ==
  CASE status = 200 -> "Error fetching language data. Status code: 200 OK"
    [] status = 404 -> "Error fetching language data. Status code: 404 Not Found"
    [] OTHER        -> "Error fetching language data. Status code: other"
SendReplies == {Err("error sending request")} \cup {Ok(s) : s \in Statuses}
SendReply(r) ==
  /\ pc[r] = "await_send"
  /\ \E reply \in SendReplies :
       /\ sendReply' = [sendReply EXCEPT ![r] = Some(reply)]
       /\ IF ~reply.ok
          THEN Fail(r, reply.err) /\ Record(r, <<"send_err", "respond">>)
          ELSE IF ~is_success(reply.val)
          THEN Fail(r, StatusMessage(reply.val)) /\ Record(r, <<"status_err", "respond">>)
          ELSE /\ pc' = [pc EXCEPT ![r] = "await_text"]
               /\ Record(r, <<"send_ok">>)
               /\ UNCHANGED resp
  /\ UNCHANGED <<colors, build, path, repoReply, textReply, fnVars>>

\* text() returns; the rest of the handler runs to its response without
\* another await (lines 112-128, 141-164, 72-81).
TextReplies == {Err("error decoding response body")} \cup {Ok(t) : t \in SrvTexts}
ParsedKeys(text) ==
  LET parsed == ParseLanguages(text) IN IF parsed.ok THEN DOMAIN parsed.val ELSE {}
TextReply(r) ==
  /\ pc[r] = "await_text"
  /\ \E reply \in TextReplies :
       /\ textReply' = [textReply EXCEPT ![r] = Some(reply)]
       /\ IF ~reply.ok
          THEN Fail(r, reply.err) /\ Record(r, <<"text_err", "respond">>)
          ELSE \E order \in Orders(ParsedKeys(reply.val)), rendered \in BOOLEAN :
                 LET out == LanguagesFromText(reply.val, order, colors, build)
                 IN  IF out.panic
                     THEN Abort(r) /\ Record(r, <<"text_ok", "parse_ok", "panic">>)
                     ELSE IF ~out.ret.ok
                     THEN /\ Respond(r, ErrorResponse(out.ret.err))
                          /\ Record(r, <<"text_ok", "parse_err", "respond">>)
                     ELSE /\ Respond(r, HtmlTemplateResponse(
                                          RepoTemplate(repoReply[r].val.val, out.ret.val),
                                          rendered))
                          /\ Record(r, <<"text_ok", "parse_ok", "aggregate", "respond">>)
  /\ UNCHANGED <<colors, build, path, repoReply, sendReply, fnVars>>

Next == \E r \in Reqs : Arrive(r) \/ RepoReply(r) \/ SendReply(r) \/ TextReply(r)

Spec == Init /\ [][Next]_vars

(***************************************************************************)
(* Function runs: one function of the program applied, up to MaxCalls      *)
(* times, to arguments drawn from the whole bounded domains                *)
(***************************************************************************)
LanguageLists ==
  {<<>>,
   <<Language("Go", Hundred, <<"f">>)>>,
   <<Language("Rust", Finite(70 * FracUnits), <<>>), Language("Go", Finite(30 * FracUnits), <<"f">>)>>}

FnInit ==
  /\ SrvIdle
  /\ fnOut = <<>>
  /\ \/ /\ colors \in ColorFiles
        /\ build = "release"
        /\ fnIn \in [fn : {"color"}, language : Names]
     \/ /\ colors \in ColorFiles
        /\ build \in Builds
        /\ fnIn \in [fn : {"languages"}, text : BodyTexts]
     \/ /\ colors = Unreadable
        /\ build = "release"
        /\ fnIn \in [fn : {"view"},
                     repo : {repo \in Repositories : repo.languages_url.some},
                     languages : LanguageLists]

CallColor ==
  /\ fnIn.fn = "color"
  /\ Len(fnOut) < MaxCalls
  /\ fnOut' = Append(fnOut, get_language_color(colors, fnIn.language))
  /\ UNCHANGED <<colors, build, srvVars, fnIn>>

CallLanguages ==
  /\ fnIn.fn = "languages"
  /\ Len(fnOut) < MaxCalls
  /\ \E order \in Orders(ParsedKeys(fnIn.text)) :
       fnOut' = Append(fnOut, LanguagesFromText(fnIn.text, order, colors, build))
  /\ UNCHANGED <<colors, build, srvVars, fnIn>>

CallView ==
  /\ fnIn.fn = "view"
  /\ Len(fnOut) < MaxCalls
  /\ fnOut' = Append(fnOut, RepoTemplate(fnIn.repo, fnIn.languages))
  /\ UNCHANGED <<colors, build, srvVars, fnIn>>

FnNext == CallColor \/ CallLanguages \/ CallView

SpecFn == FnInit /\ [][FnNext]_vars

(***************************************************************************)
(* Properties of the functions, checked under SpecFn                       *)
(***************************************************************************)
Outcomes == {fnOut[i] : i \in DOMAIN fnOut}
FileParses(file) == file.readable /\ file.text.syntax = "valid"
HasKey(file, name) ==
  FileParses(file) /\ file.text.value.t = "object" /\ name \in DOMAIN file.text.value.m
AbsentNameCall == fnIn.fn = "color" /\ FileParses(colors) /\ ~HasKey(colors, fnIn.language)

\* C2: get_language_color never panics, whatever the state of colors.json,
\* and when the file is unreadable or unparseable the color it yields is
\* empty.
C2_NeverFailsOutward ==
  fnIn.fn = "color" =>
    \A o \in Outcomes :
      /\ ~o.panic
      /\ ~FileParses(colors) => trim_matches(o.ret, Quote) = <<>>

\* C3 as stated: with a readable, parseable colors.json, get_language_color
\* of a name that is not a key returns the string of length 0.
C3_ReturnsLengthZero ==
  AbsentNameCall => \A o \in Outcomes : ~o.panic /\ Len(o.ret) = 0

\* C3 amended: with a readable, parseable colors.json, get_language_color of
\* a name that is not a key returns the JSON text of the empty string (two
\* double quotes), which trim_matches('"') reduces to the empty string; and
\* repeated calls with one name on an unchanged file return one value.
C3_ReturnsQuotedEmpty ==
  /\ AbsentNameCall =>
       \A o \in Outcomes :
         /\ ~o.panic
         /\ o.ret = <<Quote, Quote>>
         /\ trim_matches(o.ret, Quote) = <<>>
  /\ fnIn.fn = "color" => \A o1, o2 \in Outcomes : o1 = o2

C3_Witness == AbsentNameCall /\ Len(fnOut) >= 2

\* The language map of a languages call, when the body parses.
BodyParses == fnIn.fn = "languages" /\ ParseLanguages(fnIn.text).ok
BodyMap == ParseLanguages(fnIn.text).val
ExactTotal == SumOver(BodyMap, DOMAIN BodyMap)
Returned == {o \in Outcomes : ~o.panic /\ o.ret.ok}

RECURSIVE SumUnits(_)
SumUnits(languages) ==
  IF languages = <<>> THEN 0 ELSE Head(languages).size.units + SumUnits(Tail(languages))
Abs(x) == IF x < 0 THEN -x ELSE x
\* Each entry carries one rounding of at most half a grid step, times 100.
Tolerance(n) == n * 50

\* C4: for a non-empty map with positive total, the percentages of the
\* entries returned sum to 100 within tolerance and each lies in 0..100.
C4_PercentagesSumTo100 ==
  BodyParses /\ DOMAIN BodyMap # {} /\ ExactTotal > 0 =>
    \A o \in Returned :
      LET languages == o.ret.val
      IN  /\ \A i \in DOMAIN languages :
                /\ languages[i].size.cls = "finite"
                /\ languages[i].size.units >= 0
                /\ languages[i].size.units <= Hundred.units
          /\ Abs(SumUnits(languages) - Hundred.units) <= Tolerance(Len(languages))

\* C5: for a map whose total is 0 (empty, or all counts 0) what aggregation
\* returns is an empty sequence or an explicit error: it never returns an
\* entry whose percentage came from dividing by the zero total.
C5_ZeroTotalIsExplicit ==
  BodyParses /\ ExactTotal = 0 => \A o \in Returned : o.ret.val = <<>>

\* The color of an entry as line 122 makes it.
ColorLookup(file, name) == trim_matches(get_language_color(file, name).ret, Quote)

\* C9: for a map with positive total, get_repository_languages returns
\* exactly one entry per key, with size value/total*100 and the color the
\* color lookup gives for the name.
C9_OneEntryPerKey ==
  BodyParses /\ ExactTotal > 0 =>
    \A o \in Outcomes :
      /\ ~o.panic
      /\ o.ret.ok
      /\ LET languages == o.ret.val
         IN  /\ Len(languages) = Cardinality(DOMAIN BodyMap)
             /\ {languages[i].name : i \in DOMAIN languages} = DOMAIN BodyMap
             /\ \A i \in DOMAIN languages :
                  /\ languages[i].size = get_language_size(BodyMap[languages[i].name], ExactTotal)
                  /\ languages[i].color = ColorLookup(colors, languages[i].name)

\* C10: view assembly gives 0 for each absent count, "unknown" and "/" for
\* an absent owner, "/" for an absent html_url, copies what is present and
\* passes the languages through.
Default(opt, dflt) == IF opt = None THEN dflt ELSE opt.val
C10_ViewDefaults ==
  fnIn.fn = "view" =>
    \A t \in Outcomes :
      LET repo == fnIn.repo
      IN  /\ t.name = repo.name
          /\ t.open_issues_count = Default(repo.open_issues_count, 0)
          /\ t.stargazers_count = Default(repo.stargazers_count, 0)
          /\ t.watchers_count = Default(repo.watchers_count, 0)
          /\ t.forks_count = Default(repo.forks_count, 0)
          /\ repo.owner = None => t.owner = "unknown" /\ t.avatar_url = "/"
          /\ repo.owner # None =>
               t.owner = repo.owner.val.login /\ t.avatar_url = repo.owner.val.avatar_url
          /\ t.html_url = Default(repo.html_url, "/")
          /\ t.languages = fnIn.languages

C10_Witness ==
  /\ fnIn.fn = "view"
  /\ fnOut # <<>>
  /\ fnIn.repo.owner = None
  /\ fnIn.repo.html_url = None
  /\ fnIn.repo.watchers_count = None
  /\ fnIn.repo.stargazers_count = Some(MaxCount)
  /\ fnIn.languages # <<>>

(***************************************************************************)
(* Properties of the server, checked under Spec                            *)
(***************************************************************************)
RepoOk(r) == repoReply[r].some /\ repoReply[r].val.ok
SendOk(r) == sendReply[r].some /\ sendReply[r].val.ok
StatusOk(r) == SendOk(r) /\ sendReply[r].val.val \in 200 .. 299
TextOk(r) == textReply[r].some /\ textReply[r].val.ok
\* The body is a flat JSON object of string to non-negative integer.
IsLanguagesObject(text) ==
  /\ text.syntax = "valid"
  /\ text.value.t = "object"
  /\ \A k \in DOMAIN text.value.m : text.value.m[k].t = "number" /\ text.value.m[k].n >= 0
BodyOk(r) == TextOk(r) /\ IsLanguagesObject(textReply[r].val.val)

\* C1: a request whose lookup succeeded without a languages URL ends with a
\* server-error response of its own; the handler does not panic.
C1_MissingUrlIsAnError ==
  \A r \in Reqs :
    RepoOk(r) /\ ~repoReply[r].val.val.languages_url.some =>
      pc[r] = "done" /\ resp[r].kind = "error" /\ resp[r].status \in 500 .. 599

\* C6: when an upstream step of a request has failed (lookup error, send
\* error, non-2xx status, unreadable body, body that is not a languages
\* object) the request has a 500-class response carrying a message and no
\* page; a page is returned only when both fetches and the parse succeeded.
UpstreamFailed(r) ==
  \/ repoReply[r].some /\ ~RepoOk(r)
  \/ sendReply[r].some /\ ~SendOk(r)
  \/ SendOk(r) /\ ~StatusOk(r)
  \/ textReply[r].some /\ ~TextOk(r)
  \/ TextOk(r) /\ ~BodyOk(r)
C6_UpstreamFailureIs500 ==
  \A r \in Reqs :
    /\ UpstreamFailed(r) =>
         /\ pc[r] = "done"
         /\ resp[r].kind = "error"
         /\ resp[r].status \in 500 .. 599
         /\ resp[r].message # ""
    /\ resp[r].kind = "page" => RepoOk(r) /\ StatusOk(r) /\ BodyOk(r)

C6_Witness ==
  \E r, q \in Reqs :
    /\ SendOk(r) /\ ~StatusOk(r) /\ resp[r].kind = "error"
    /\ TextOk(q) /\ ~BodyOk(q) /\ resp[q].kind = "error"

\* C7: within a request the languages GET is sent only after the lookup
\* returned successfully, at most one lookup and one GET are sent,
\* aggregation starts only after the body parsed, a page is produced only
\* after aggregation, and nothing is sent after a step has failed.
At(l, e) == {i \in DOMAIN l : l[i] = e}
Failures == {"lookup_err", "send_err", "status_err", "text_err", "parse_err", "panic"}
C7_SequentialUnretried ==
  \A r \in Reqs :
    LET l == log[r]
    IN  /\ Cardinality(At(l, "lookup")) <= 1
        /\ Cardinality(At(l, "get")) <= 1
        /\ \A i \in At(l, "get") : \E j \in At(l, "lookup_ok") : j < i
        /\ \A i \in At(l, "aggregate") : \E j \in At(l, "parse_ok") : j < i
        /\ resp[r].kind = "page" =>
             \E i \in At(l, "aggregate") : \E j \in At(l, "respond") : i < j
        /\ \A i \in DOMAIN l :
             l[i] \in Failures => \A j \in DOMAIN l : j > i => l[j] \notin {"lookup", "get"}

C7_Witness ==
  \E r, q \in Reqs :
    /\ resp[r].kind = "page" /\ resp[r].view.languages # <<>>
    /\ At(log[q], "lookup_err") # {} /\ pc[q] = "done"

\* C8: a step of one request changes nothing another request reads and
\* never writes the color file; a finished request's response is one its
\* own upstream replies and the color file determine; and a request
\* suspended on its upstream never keeps another request from its next step.
Suspended(r) == pc[r] \in {"await_repo", "await_send", "await_text"}
Step(r) == Arrive(r) \/ RepoReply(r) \/ SendReply(r) \/ TextReply(r)
Untouched(q) ==
  /\ pc'[q] = pc[q] /\ path'[q] = path[q] /\ repoReply'[q] = repoReply[q]
  /\ sendReply'[q] = sendReply[q] /\ textReply'[q] = textReply[q]
  /\ resp'[q] = resp[q] /\ log'[q] = log[q]
Isolated ==
  /\ colors' = colors
  /\ build' = build
  /\ \E r \in Reqs : \A q \in Reqs \ {r} : Untouched(q)
OwnResponses(r) ==
  IF ~RepoOk(r) THEN {ErrorResponse(HttpError(INTERNAL_SERVER_ERROR, repoReply[r].val.err))}
  ELSE IF ~SendOk(r) THEN {ErrorResponse(HttpError(INTERNAL_SERVER_ERROR, sendReply[r].val.err))}
  ELSE IF ~StatusOk(r) THEN {ErrorResponse(HttpError(INTERNAL_SERVER_ERROR, StatusMessage(sendReply[r].val.val)))}
  ELSE IF ~TextOk(r) THEN {ErrorResponse(HttpError(INTERNAL_SERVER_ERROR, textReply[r].val.err))}
  ELSE LET text == textReply[r].val.val
           outs == {LanguagesFromText(text, o, colors, build) : o \in Orders(ParsedKeys(text))}
       IN  UNION {IF out.panic THEN {}
                  ELSE IF ~out.ret.ok THEN {ErrorResponse(out.ret.err)}
                  ELSE {HtmlTemplateResponse(RepoTemplate(repoReply[r].val.val, out.ret.val), b)
                          : b \in BOOLEAN}
                  : out \in outs}
NonBlocking ==
  \A r, q \in Reqs :
    r # q /\ Suspended(r) /\ pc[q] \notin {"done", "panicked"} => ENABLED Step(q)
Determined == \A r \in Reqs : pc[r] = "done" => resp[r] \in OwnResponses(r)
C8_RequestsIndependent == [](NonBlocking /\ Determined) /\ [][Isolated]_vars

C8_Witness ==
  \E r, q \in Reqs :
    /\ pc[r] = "await_send"
    /\ pc[q] = "done" /\ resp[q].kind = "page" /\ Len(resp[q].view.languages) = 2

====
